---- MODULE Spec2Model ----
(***************************************************************************)
(* Model of the CIDR allocation engine of terraform-provider-docidr        *)
(* (docidr/cidr/allocator.go).                                             *)
(*                                                                         *)
(* Addresses are unsigned integers of AddrBits bits.  The Go code uses     *)
(* uint32; the model keeps the same wrap-around arithmetic on a narrower   *)
(* word (every sum, product and shift is reduced modulo 2^AddrBits), so    *)
(* that the whole address space, every parent range and every avoid list   *)
(* can be enumerated.  A range is a record [IP, Prefix]: the network       *)
(* address and the number of leading one bits of the mask.                 *)
(***************************************************************************)
EXTENDS Integers, Sequences, FiniteSets, TLC

\* ------------------------------------------------------------------ bounds
AddrBits == 3
MaxReq == 2
MaxAvoid == 2

Names == {"a", "b"}

\* ------------------------------------------------------------------ words
RECURSIVE Pow2(_)
Pow2(n) == IF n = 0 THEN 1 ELSE 2 * Pow2(n - 1)

\* Number of addresses (2^32 in the program).
AddrSpace == Pow2(AddrBits)

\* Truncation of a mathematical value to the machine word.
U32(x) == x % AddrSpace

\* uint32(1) << n for a shift count n in 0..AddrBits; a shift by the full
\* width gives 0, as Go defines it.
Shl1(n) == U32(Pow2(n))

Prefixes == 0..AddrBits

\* ------------------------------------------------------------------ ranges
\* net.IP.Mask with a mask of p leading ones: clears the host bits.
MaskIP(ip, p) == ip - (ip % Pow2(AddrBits - p))

\* The networks net.ParseCIDR can return: host bits zeroed.
Ranges == {r \in [IP : 0..(AddrSpace - 1), Prefix : Prefixes] : MaskIP(r.IP, r.Prefix) = r.IP}

\* net.IPNet.Contains: the address and the network agree on the masked bits.
Contains(n, ip) == MaskIP(ip, n.Prefix) = MaskIP(n.IP, n.Prefix)

\* An overlap test that looks one way only (not what the code does).
networksOverlapOneWay(a, b) == Contains(a, b.IP)

\* An overlap test that asks for containment both ways (not what the code
\* does).
networksOverlapBoth(a, b) == Contains(a, b.IP) /\ Contains(b, a.IP)

\* return a.Contains(b.IP) || b.Contains(a.IP)
networksOverlap(a, b) == Contains(a, b.IP) \/ Contains(b, a.IP)

\* if c%blockSize != 0 { c = ((c / blockSize) + 1) * blockSize }
AlignUp(c, bs) == IF c % bs # 0 THEN U32(((c \div bs) + 1) * bs) ELSE c

\* exclStart + (uint32(1) << (32 - exclPrefixLen))
RangeEnd(r) == U32(MaskIP(r.IP, r.Prefix) + Shl1(AddrBits - r.Prefix))

\* Index of the first exclusion, in list order, that overlaps the candidate
\* (0 when none does): the inner for loop with its break.
FirstOverlap(cand, excls) ==
    IF \E k \in 1..Len(excls) : networksOverlap(cand, excls[k])
    THEN CHOOSE k \in 1..Len(excls) :
            /\ networksOverlap(cand, excls[k])
            /\ \A j \in 1..(k - 1) : ~networksOverlap(cand, excls[j])
    ELSE 0

\* A validation that also rejects the parent's own prefix length (not what
\* the code does).
PrefixTooSmallOrEqual(p, basePrefixLen) == p <= basePrefixLen

\* req.PrefixLength < basePrefixLen
PrefixTooSmall(p, basePrefixLen) == p < basePrefixLen

\* ------------------------------------------------------------------ state
VARIABLES
    baseCIDR,        \* Allocator.baseCIDR, fixed at construction
    requests,        \* the caller's request list
    exclusions,      \* the caller's avoid list
    pc,              \* "idle", "loop", "search", "done", "panic"
    results,         \* Allocate: results
    usedBlocks,      \* Allocate: usedBlocks
    idx,             \* Allocate: position of the range loop (1-based)
    blockSize,       \* findAvailableBlock: blockSize
    baseEnd,         \* findAvailableBlock: baseEnd
    candidateStart,  \* findAvailableBlock: candidateStart
    iters,           \* number of candidates checked by the current search
    ret,             \* what Allocate returned
    aux              \* state of the operations outside Allocate (overlap test,
                     \* parsing, construction, earlier calls); NoAux when unused

vars == <<baseCIDR, requests, exclusions, pc, results, usedBlocks, idx,
          blockSize, baseEnd, candidateStart, iters, ret, aux>>

RECURSIVE SeqsUpTo(_, _)
SeqsUpTo(S, n) ==
    IF n = 0 THEN {<<>>}
    ELSE LET shorter == SeqsUpTo(S, n - 1)
         IN shorter \cup {Append(s, x) : s \in {t \in shorter : Len(t) = n - 1}, x \in S}

Requests == [Name : Names, PrefixLength : Prefixes]
RequestLists == SeqsUpTo(Requests, MaxReq)
AvoidLists == SeqsUpTo(Ranges, MaxAvoid)

EmptyMap == <<>>

NoAux == [kind |-> "none"]

NoReturn == [hasMap |-> FALSE, map |-> EmptyMap, err |-> "pending", errName |-> "", errPrefix |-> 0]

\* A search that never leaves the loop is cut off here, above every bound
\* the number of candidates could have.
MaxIter == AddrSpace + 2

\* A result map made anew for every request (not what the code does).
PutFresh(m, k, v) == [n \in {k} |-> v]

\* A result map that keeps the entry a name already has (not what the code
\* does).
PutKeepFirst(m, k, v) == [n \in (DOMAIN m) \cup {k} |-> IF n \in DOMAIN m THEN m[n] ELSE v]

\* results[req.Name] = allocated.String()
Put(m, k, v) == [n \in (DOMAIN m) \cup {k} |-> IF n = k THEN v ELSE m[n]]

Init ==
    /\ baseCIDR \in Ranges
    /\ requests = <<>>
    /\ exclusions = <<>>
    /\ pc = "idle"
    /\ results = EmptyMap
    /\ usedBlocks = <<>>
    /\ idx = 0
    /\ blockSize = 0
    /\ baseEnd = 0
    /\ candidateStart = 0
    /\ iters = 0
    /\ ret = NoReturn
    /\ aux = NoAux

\* ------------------------------------------------------------------ Allocate
\* Entry of Allocate: the empty result map and the private copy of the
\* caller's exclusions.
Allocate(reqs, excl) ==
    /\ pc = "idle"
    /\ requests' = reqs
    /\ exclusions' = excl
    /\ results' = EmptyMap
    /\ usedBlocks' = excl
    /\ idx' = 1
    /\ pc' = "loop"
    /\ UNCHANGED <<aux, baseCIDR, blockSize, baseEnd, candidateStart, iters, ret>>

\* A call of Allocate with any request list and any avoid list.
AllocateCall ==
    /\ pc = "idle"
    /\ \E reqs \in RequestLists, excl \in AvoidLists : Allocate(reqs, excl)

\* A return that hands back a nil map when nothing was placed (not what the
\* code does).
ForReturnNilWhenEmpty ==
    /\ pc = "loop"
    /\ idx > Len(requests)
    /\ ret' = [hasMap |-> results # EmptyMap, map |-> results, err |-> "nil",
               errName |-> "", errPrefix |-> 0]
    /\ pc' = "done"
    /\ UNCHANGED <<aux, baseCIDR, requests, exclusions, results, usedBlocks, idx,
                   blockSize, baseEnd, candidateStart, iters>>

\* The range loop is over: return results, nil.
ForReturn ==
    /\ pc = "loop"
    /\ idx > Len(requests)
    /\ ret' = [hasMap |-> TRUE, map |-> results, err |-> "nil", errName |-> "", errPrefix |-> 0]
    /\ pc' = "done"
    /\ UNCHANGED <<aux, baseCIDR, requests, exclusions, results, usedBlocks, idx,
                   blockSize, baseEnd, candidateStart, iters>>

\* Validation of every request before any search (not what the code does).
ForRejectAny ==
    /\ pc = "loop"
    /\ \E j \in idx..Len(requests) :
          /\ PrefixTooSmall(requests[j].PrefixLength, baseCIDR.Prefix)
          /\ \A k \in idx..(j - 1) : ~PrefixTooSmall(requests[k].PrefixLength, baseCIDR.Prefix)
          /\ ret' = [hasMap |-> FALSE, map |-> EmptyMap, err |-> "invalid",
                     errName |-> requests[j].Name, errPrefix |-> requests[j].PrefixLength]
          /\ idx' = j
    /\ pc' = "done"
    /\ UNCHANGED <<aux, baseCIDR, requests, exclusions, results, usedBlocks,
                   blockSize, baseEnd, candidateStart, iters>>

\* The prefix-length validation fails: return nil, error.
ForReject ==
    /\ pc = "loop"
    /\ idx <= Len(requests)
    /\ PrefixTooSmall(requests[idx].PrefixLength, baseCIDR.Prefix)
    /\ ret' = [hasMap |-> FALSE, map |-> EmptyMap, err |-> "invalid",
               errName |-> requests[idx].Name, errPrefix |-> requests[idx].PrefixLength]
    /\ pc' = "done"
    /\ UNCHANGED <<aux, baseCIDR, requests, exclusions, results, usedBlocks, idx,
                   blockSize, baseEnd, candidateStart, iters>>

\* Entry of findAvailableBlock for a validated request: block size, parent
\* boundaries and the first, aligned candidate.  A block size of 0 (a shift
\* by the full width) makes the alignment test divide by zero: the run-time
\* panics.
FindEnter ==
    /\ pc = "loop"
    /\ idx <= Len(requests)
    /\ ~PrefixTooSmall(requests[idx].PrefixLength, baseCIDR.Prefix)
    /\ LET bs == Shl1(AddrBits - requests[idx].PrefixLength)
           baseStart == MaskIP(baseCIDR.IP, baseCIDR.Prefix)
       IN /\ blockSize' = bs
          /\ baseEnd' = U32(baseStart + Shl1(AddrBits - baseCIDR.Prefix))
          /\ iters' = 0
          /\ IF bs = 0
             THEN /\ pc' = "panic"
                  /\ candidateStart' = baseStart
             ELSE /\ pc' = "search"
                  /\ candidateStart' = AlignUp(baseStart, bs)
    /\ UNCHANGED <<aux, baseCIDR, requests, exclusions, results, usedBlocks, idx, ret>>

\* The candidate the loop body builds.
Candidate == [IP |-> candidateStart, Prefix |-> requests[idx].PrefixLength]

\* for candidateStart+blockSize <= baseEnd
InLoop == U32(candidateStart + blockSize) <= baseEnd

\* The placement without the append to usedBlocks (not what the code does).
FindPlaceNoAppend ==
    /\ pc = "search"
    /\ InLoop
    /\ FirstOverlap(Candidate, usedBlocks) = 0
    /\ results' = Put(results, requests[idx].Name, Candidate)
    /\ usedBlocks' = usedBlocks
    /\ idx' = idx + 1
    /\ iters' = iters + 1
    /\ pc' = "loop"
    /\ UNCHANGED <<aux, baseCIDR, requests, exclusions, blockSize, baseEnd, candidateStart, ret>>

\* A placement that appends to the caller's list (not what the code does).
FindPlaceAppendCaller ==
    /\ pc = "search"
    /\ InLoop
    /\ FirstOverlap(Candidate, usedBlocks) = 0
    /\ results' = Put(results, requests[idx].Name, Candidate)
    /\ usedBlocks' = Append(usedBlocks, Candidate)
    /\ exclusions' = Append(exclusions, Candidate)
    /\ idx' = idx + 1
    /\ iters' = iters + 1
    /\ pc' = "loop"
    /\ UNCHANGED <<aux, baseCIDR, requests, blockSize, baseEnd, candidateStart, ret>>

\* One pass of the loop finds no overlap: the candidate is returned to
\* Allocate, which records it and appends it to usedBlocks.
FindPlace ==
    /\ pc = "search"
    /\ InLoop
    /\ FirstOverlap(Candidate, usedBlocks) = 0
    /\ results' = Put(results, requests[idx].Name, Candidate)
    /\ usedBlocks' = Append(usedBlocks, Candidate)
    /\ idx' = idx + 1
    /\ iters' = iters + 1
    /\ pc' = "loop"
    /\ UNCHANGED <<aux, baseCIDR, requests, exclusions, blockSize, baseEnd, candidateStart, ret>>

\* One pass of the loop finds an overlap: the candidate moves to the end of
\* the first overlapping exclusion, aligned up to the block size.
FindSkip ==
    /\ pc = "search"
    /\ InLoop
    /\ iters < MaxIter
    /\ LET k == FirstOverlap(Candidate, usedBlocks)
       IN /\ k # 0
          /\ candidateStart' = AlignUp(RangeEnd(usedBlocks[k]), blockSize)
    /\ iters' = iters + 1
    /\ UNCHANGED <<aux, baseCIDR, requests, exclusions, pc, results, usedBlocks, idx,
                   blockSize, baseEnd, ret>>

\* An exhaustion that hands back the partial results (not what the code does).
FindExhaustPartial ==
    /\ pc = "search"
    /\ ~InLoop
    /\ ret' = [hasMap |-> TRUE, map |-> results, err |-> "exhausted",
               errName |-> requests[idx].Name, errPrefix |-> requests[idx].PrefixLength]
    /\ pc' = "done"
    /\ UNCHANGED <<aux, baseCIDR, requests, exclusions, results, usedBlocks, idx,
                   blockSize, baseEnd, candidateStart, iters>>

\* The loop ends without a block: return nil, error.
FindExhaust ==
    /\ pc = "search"
    /\ ~InLoop
    /\ ret' = [hasMap |-> FALSE, map |-> EmptyMap, err |-> "exhausted",
               errName |-> requests[idx].Name, errPrefix |-> requests[idx].PrefixLength]
    /\ pc' = "done"
    /\ UNCHANGED <<aux, baseCIDR, requests, exclusions, results, usedBlocks, idx,
                   blockSize, baseEnd, candidateStart, iters>>

Next ==
    \/ AllocateCall
    \/ ForReturn
    \/ ForReject
    \/ FindEnter
    \/ FindPlace
    \/ FindSkip
    \/ FindExhaust

Spec == Init /\ [][Next]_vars

\* ------------------------------------------------------------------ overlap
\* The state of Allocate while another operation is modelled.
AllocateUnused ==
    /\ requests = <<>>
    /\ exclusions = <<>>
    /\ results = EmptyMap
    /\ usedBlocks = <<>>
    /\ idx = 0
    /\ blockSize = 0
    /\ baseEnd = 0
    /\ candidateStart = 0
    /\ iters = 0
    /\ ret = NoReturn

AllocateVars == <<requests, exclusions, results, usedBlocks, idx,
                  blockSize, baseEnd, candidateStart, iters, ret>>

\* networksOverlap on any two networks, both ways round.
InitOverlap ==
    /\ baseCIDR = [IP |-> 0, Prefix |-> 0]
    /\ pc = "overlap"
    /\ AllocateUnused
    /\ aux \in [kind : {"overlap"}, a : Ranges, b : Ranges,
                called : {FALSE}, ab : {FALSE}, ba : {FALSE}]

OverlapApply ==
    /\ pc = "overlap"
    /\ ~aux.called
    /\ aux' = [aux EXCEPT !.called = TRUE,
                          !.ab = networksOverlap(aux.a, aux.b),
                          !.ba = networksOverlap(aux.b, aux.a)]
    /\ UNCHANGED <<baseCIDR, pc, AllocateVars>>

NextOverlap == OverlapApply

SpecOverlap == InitOverlap /\ [][NextOverlap]_vars

\* ------------------------------------------------------------------ parsing
\* The text of a CIDR, as far as parsing tells texts apart: the sequence of
\* the numbers written in it, the address and then, after the slash, the
\* prefix length.  <<>> is a text with no address in it ("invalid"), <<ip>> a
\* text with no prefix part ("10.0.0.0"); the address AddrSpace and the prefix
\* length AddrBits + 1 stand for numbers out of range ("10.0.0.0/33").
MaxTexts == 2

Texts ==
    {<<>>} \cup {<<ip>> : ip \in 0..AddrSpace}
           \cup {<<ip, p>> : ip \in 0..AddrSpace, p \in 0..(AddrBits + 1)}

TextLists == SeqsUpTo(Texts, MaxTexts)

\* net.ParseCIDR: an error unless the text is address/prefix with both in
\* range; otherwise the address as written and the network, whose IP is the
\* address with the host bits cleared.
netParseCIDR(t) ==
    IF Len(t) = 2 /\ t[1] < AddrSpace /\ t[2] <= AddrBits
    THEN [ok |-> TRUE, ip |-> t[1],
          network |-> [IP |-> MaskIP(t[1], t[2]), Prefix |-> t[2]]]
    ELSE [ok |-> FALSE, ip |-> 0, network |-> [IP |-> 0, Prefix |-> 0]]

\* ParseCIDR: the network of net.ParseCIDR, or an error that quotes the text.
ParseCIDR(t) ==
    LET r == netParseCIDR(t)
    IN [ok |-> r.ok, network |-> r.network, errText |-> IF r.ok THEN <<>> ELSE t]

\* ParseCIDRs on any list of texts: the state before the loop.
InitParse ==
    /\ baseCIDR = [IP |-> 0, Prefix |-> 0]
    /\ pc = "parse"
    /\ AllocateUnused
    /\ aux \in [kind : {"parse"}, cidrs : TextLists, i : {1}, networks : {<<>>},
               hasList : {FALSE}, list : {<<>>}, err : {FALSE}, errText : {<<>>}]

\* One pass of the loop over a text that parses: append its network.
ParseAppend ==
    /\ pc = "parse"
    /\ aux.i <= Len(aux.cidrs)
    /\ ParseCIDR(aux.cidrs[aux.i]).ok
    /\ aux' = [aux EXCEPT !.networks = Append(@, ParseCIDR(aux.cidrs[aux.i]).network),
                          !.i = @ + 1]
    /\ UNCHANGED <<baseCIDR, pc, AllocateVars>>

\* A failure that hands back the networks parsed so far (not what the code
\* does).
ParseFailPartial ==
    /\ pc = "parse"
    /\ aux.i <= Len(aux.cidrs)
    /\ ~ParseCIDR(aux.cidrs[aux.i]).ok
    /\ aux' = [aux EXCEPT !.err = TRUE, !.errText = ParseCIDR(aux.cidrs[aux.i]).errText,
                          !.hasList = TRUE, !.list = aux.networks]
    /\ pc' = "parsed"
    /\ UNCHANGED <<baseCIDR, AllocateVars>>

\* One pass of the loop over a text that does not parse: return nil, err.
ParseFail ==
    /\ pc = "parse"
    /\ aux.i <= Len(aux.cidrs)
    /\ ~ParseCIDR(aux.cidrs[aux.i]).ok
    /\ aux' = [aux EXCEPT !.err = TRUE, !.errText = ParseCIDR(aux.cidrs[aux.i]).errText]
    /\ pc' = "parsed"
    /\ UNCHANGED <<baseCIDR, AllocateVars>>

\* The loop is over: return networks, nil.
ParseReturn ==
    /\ pc = "parse"
    /\ aux.i > Len(aux.cidrs)
    /\ aux' = [aux EXCEPT !.hasList = TRUE, !.list = aux.networks]
    /\ pc' = "parsed"
    /\ UNCHANGED <<baseCIDR, AllocateVars>>

NextParse ==
    \/ ParseAppend
    \/ ParseFail
    \/ ParseReturn

SpecParse == InitParse /\ [][NextParse]_vars

\* ------------------------------------------------------------------ one call
\* A call of Allocate as a value: the record of its inputs and locals, and
\* the step the code takes from it.  The actions above are this step on the
\* variables; the record form lets a second call run beside the first and
\* lets a whole call be run to its end.
CallInit(reqs, excl) ==
    [requests |-> reqs, exclusions |-> excl, pc |-> "loop", results |-> EmptyMap,
     usedBlocks |-> excl, idx |-> 1, blockSize |-> 0, baseEnd |-> 0,
     candidateStart |-> 0, iters |-> 0, ret |-> NoReturn]

CallStep(base, c) ==
    IF c.pc = "loop"
    THEN IF c.idx > Len(c.requests)
         THEN [c EXCEPT !.pc = "done",
                        !.ret = [hasMap |-> TRUE, map |-> c.results, err |-> "nil",
                                 errName |-> "", errPrefix |-> 0]]
         ELSE LET req == c.requests[c.idx]
              IN IF PrefixTooSmall(req.PrefixLength, base.Prefix)
                 THEN [c EXCEPT !.pc = "done",
                                !.ret = [hasMap |-> FALSE, map |-> EmptyMap, err |-> "invalid",
                                         errName |-> req.Name, errPrefix |-> req.PrefixLength]]
                 ELSE LET bs == Shl1(AddrBits - req.PrefixLength)
                          baseStart == MaskIP(base.IP, base.Prefix)
                      IN [c EXCEPT !.blockSize = bs,
                                   !.baseEnd = U32(baseStart + Shl1(AddrBits - base.Prefix)),
                                   !.iters = 0,
                                   !.pc = IF bs = 0 THEN "panic" ELSE "search",
                                   !.candidateStart = IF bs = 0 THEN baseStart
                                                      ELSE AlignUp(baseStart, bs)]
    ELSE IF c.pc = "search"
    THEN LET req == c.requests[c.idx]
             cand == [IP |-> c.candidateStart, Prefix |-> req.PrefixLength]
         IN IF ~(U32(c.candidateStart + c.blockSize) <= c.baseEnd)
            THEN [c EXCEPT !.pc = "done",
                           !.ret = [hasMap |-> FALSE, map |-> EmptyMap, err |-> "exhausted",
                                    errName |-> req.Name, errPrefix |-> req.PrefixLength]]
            ELSE LET k == FirstOverlap(cand, c.usedBlocks)
                 IN IF k = 0
                    THEN [c EXCEPT !.results = Put(c.results, req.Name, cand),
                                   !.usedBlocks = Append(c.usedBlocks, cand),
                                   !.idx = c.idx + 1,
                                   !.iters = c.iters + 1,
                                   !.pc = "loop"]
                    ELSE IF c.iters < MaxIter
                    THEN [c EXCEPT !.candidateStart = AlignUp(RangeEnd(c.usedBlocks[k]), c.blockSize),
                                   !.iters = c.iters + 1]
                    ELSE c
    ELSE c

\* The call run on its own until it returns, panics or is cut off.
RECURSIVE RunAlone(_, _)
RunAlone(base, c) ==
    LET d == CallStep(base, c)
    IN IF d = c THEN c ELSE RunAlone(base, d)

\* The call the variables hold.
ThisCall ==
    [requests |-> requests, exclusions |-> exclusions, pc |-> pc, results |-> results,
     usedBlocks |-> usedBlocks, idx |-> idx, blockSize |-> blockSize, baseEnd |-> baseEnd,
     candidateStart |-> candidateStart, iters |-> iters, ret |-> ret]

\* ------------------------------------------------------------------ NewAllocator
\* Before construction: any text, no allocator yet.
InitNew ==
    /\ baseCIDR = [IP |-> 0, Prefix |-> 0]
    /\ pc = "new"
    /\ AllocateUnused
    /\ aux \in [kind : {"new"}, text : Texts, hasAllocator : {FALSE}, err : {FALSE}]

\* A constructor that keeps the address as written (not what the code does).
NewAllocatorKeepHostBits ==
    /\ pc = "new"
    /\ LET r == netParseCIDR(aux.text)
       IN IF r.ok
          THEN /\ baseCIDR' = [IP |-> r.ip, Prefix |-> r.network.Prefix]
               /\ aux' = [aux EXCEPT !.hasAllocator = TRUE]
               /\ pc' = "idle"
          ELSE /\ aux' = [aux EXCEPT !.err = TRUE]
               /\ pc' = "newerr"
               /\ UNCHANGED baseCIDR
    /\ UNCHANGED AllocateVars

\* NewAllocator: nil and an error if net.ParseCIDR fails, otherwise an
\* allocator that holds the network net.ParseCIDR returned.
NewAllocator ==
    /\ pc = "new"
    /\ LET r == netParseCIDR(aux.text)
       IN IF r.ok
          THEN /\ baseCIDR' = r.network
               /\ aux' = [aux EXCEPT !.hasAllocator = TRUE]
               /\ pc' = "idle"
          ELSE /\ aux' = [aux EXCEPT !.err = TRUE]
               /\ pc' = "newerr"
               /\ UNCHANGED baseCIDR
    /\ UNCHANGED AllocateVars

NextNew ==
    \/ NewAllocator
    \/ AllocateCall
    \/ ForReturn
    \/ ForReject
    \/ FindEnter
    \/ FindPlace
    \/ FindSkip
    \/ FindExhaust

SpecNew == InitNew /\ [][NextNew]_vars

\* ------------------------------------------------------------------ repeated calls
\* Calls made one after another on the same allocator.  aux remembers the
\* first call (its inputs and what it returned) and counts the calls that
\* have returned.
MaxCalls == 3

InitCalls ==
    /\ baseCIDR \in Ranges
    /\ pc = "idle"
    /\ AllocateUnused
    /\ aux = [kind |-> "calls", n |-> 0, reqs |-> <<>>, excl |-> <<>>, ret |-> NoReturn,
              between |-> FALSE]

\* The calls made between the first call and its repetition: one request,
\* for the whole parent or for a single address, and no avoid list.
BetweenCalls ==
    {<<<<[Name |-> "a", PrefixLength |-> p]>>, <<>>>> : p \in {baseCIDR.Prefix, AddrBits}}

\* What aux holds once the call in the variables has returned.
Remembered ==
    IF aux.n = 0
    THEN [aux EXCEPT !.n = 1, !.reqs = requests, !.excl = exclusions, !.ret = ret]
    ELSE [aux EXCEPT !.n = @ + 1]

\* A later call that goes on with the working list of the call before it
\* (not what the code does).
NextCallKeepsUsed(reqs, excl) ==
    /\ pc = "done"
    /\ aux.n + 1 < MaxCalls
    /\ requests' = reqs
    /\ exclusions' = excl
    /\ results' = EmptyMap
    /\ usedBlocks' = usedBlocks \o excl
    /\ idx' = 1
    /\ pc' = "loop"
    /\ aux' = [Remembered EXCEPT !.between = aux.between
                                      \/ <<reqs, excl>> # <<Remembered.reqs, Remembered.excl>>]
    /\ UNCHANGED <<baseCIDR, blockSize, baseEnd, candidateStart, iters, ret>>

\* The entry of Allocate after an earlier call has returned: a new result
\* map and a new copy of the exclusions given to this call.
NextCall(reqs, excl) ==
    /\ pc = "done"
    /\ aux.n + 1 < MaxCalls
    /\ requests' = reqs
    /\ exclusions' = excl
    /\ results' = EmptyMap
    /\ usedBlocks' = excl
    /\ idx' = 1
    /\ pc' = "loop"
    /\ aux' = [Remembered EXCEPT !.between = aux.between
                                      \/ <<reqs, excl>> # <<Remembered.reqs, Remembered.excl>>]
    /\ UNCHANGED <<baseCIDR, blockSize, baseEnd, candidateStart, iters, ret>>

\* The first call is made again.
RepeatCall ==
    /\ pc = "done"
    /\ NextCall(Remembered.reqs, Remembered.excl)

\* Another call is made.
BetweenCall ==
    /\ pc = "done"
    /\ \E in \in BetweenCalls : NextCall(in[1], in[2])

NextCalls ==
    \/ AllocateCall
    \/ ForReturn
    \/ ForReject
    \/ FindEnter
    \/ FindPlace
    \/ FindSkip
    \/ FindExhaust
    \/ RepeatCall
    \/ BetweenCall

SpecCalls == InitCalls /\ [][NextCalls]_vars

\* ------------------------------------------------------------------ concurrent calls
\* Two calls of Allocate on the same allocator that run at the same time,
\* each with its own request list and avoid list.  One call is held in the
\* variables, the other one, a record, in aux.c; both read baseCIDR.
MaxConcReq == 1
MaxConcAvoid == 1

ConcRequestLists == SeqsUpTo(Requests, MaxConcReq)
ConcAvoidLists == SeqsUpTo(Ranges, MaxConcAvoid)

\* The other call has been entered; the call of the variables has not.
InitConc ==
    /\ baseCIDR \in Ranges
    /\ pc = "idle"
    /\ AllocateUnused
    /\ aux \in {[kind |-> "conc", c |-> CallInit(r, e), overlapped |-> FALSE] :
                   r \in ConcRequestLists, e \in ConcAvoidLists}

\* Entry of the call of the variables.
ConcAllocateCall ==
    /\ pc = "idle"
    /\ \E reqs \in ConcRequestLists, excl \in ConcAvoidLists : Allocate(reqs, excl)

\* A step of the other call that also puts the block it places on the
\* working list of the call of the variables, as if the two calls shared
\* the list (not what the code does).
OtherStepShared ==
    /\ aux.c.pc \in {"loop", "search"}
    /\ LET d == CallStep(baseCIDR, aux.c)
       IN /\ d # aux.c
          /\ aux' = [aux EXCEPT !.c = d,
                                !.overlapped = @ \/ pc \in {"loop", "search"}]
          /\ usedBlocks' = IF Len(d.usedBlocks) > Len(aux.c.usedBlocks)
                           THEN Append(usedBlocks, d.usedBlocks[Len(d.usedBlocks)])
                           ELSE usedBlocks
    /\ UNCHANGED <<baseCIDR, pc, requests, exclusions, results, idx,
                   blockSize, baseEnd, candidateStart, iters, ret>>

\* A step of the other call: it reads baseCIDR and writes its own locals.
OtherStep ==
    /\ aux.c.pc \in {"loop", "search"}
    /\ LET d == CallStep(baseCIDR, aux.c)
       IN /\ d # aux.c
          /\ aux' = [aux EXCEPT !.c = d,
                                !.overlapped = @ \/ pc \in {"loop", "search"}]
    /\ UNCHANGED <<baseCIDR, pc, AllocateVars>>

NextConc ==
    \/ ConcAllocateCall
    \/ ForReturn
    \/ ForReject
    \/ FindEnter
    \/ FindPlace
    \/ FindSkip
    \/ FindExhaust
    \/ OtherStep

SpecConc == InitConc /\ [][NextConc]_vars

\* ------------------------------------------------------------------ spans
\* The addresses of a range as mathematical integers (no wrap-around): the
\* yardstick the claims are measured with.
SpanSize(r) == Pow2(AddrBits - r.Prefix)
SpanEnd(r) == r.IP + SpanSize(r)
SpansIntersect(a, b) == a.IP < SpanEnd(b) /\ b.IP < SpanEnd(a)
Within(b, parent) == parent.IP <= b.IP /\ SpanEnd(b) <= SpanEnd(parent)
Aligned(b) == b.IP % SpanSize(b) = 0

\* Positions in usedBlocks of the blocks placed by the current call.
PlacedIdx == (Len(exclusions) + 1)..Len(usedBlocks)

\* Start addresses of the size-aligned blocks of prefix length p that lie in
\* the parent range and meet no range of the avoid list.
FreeStarts(p, avoid) ==
    {s \in 0..(AddrSpace - 1) :
        LET b == [IP |-> s, Prefix |-> p]
        IN /\ Aligned(b)
           /\ Within(b, baseCIDR)
           /\ \A k \in 1..Len(avoid) : ~SpansIntersect(b, avoid[k])}

Lowest(S) == CHOOSE s \in S : \A t \in S : s <= t

Returned == pc = "done"
Succeeded == pc = "done" /\ ret.err = "nil"
Failed == pc = "done" /\ ret.err \in {"invalid", "exhausted"}

\* ------------------------------------------------------------------ claims

\* C1: every block of a returned mapping lies entirely within the parent
\* range and its base address is a multiple of its own size.
C1_BlocksInParentAligned ==
    Succeeded =>
        \A n \in DOMAIN ret.map : Within(ret.map[n], baseCIDR) /\ Aligned(ret.map[n])

\* C2: no block of a returned mapping shares an address with any range of
\* the avoid list the caller passed in.
C2_NoOverlapWithAvoid ==
    Succeeded =>
        \A n \in DOMAIN ret.map : \A k \in 1..Len(exclusions) :
            ~SpansIntersect(ret.map[n], exclusions[k])

\* C2 witness: a call succeeded although an avoid range covered the first
\* candidate of a returned block, which was therefore placed further up.
C2_Witness ==
    /\ Succeeded
    /\ \E n \in DOMAIN ret.map : \E k \in 1..Len(exclusions) :
          /\ ret.map[n].IP > baseCIDR.IP
          /\ SpansIntersect([IP |-> baseCIDR.IP, Prefix |-> ret.map[n].Prefix], exclusions[k])
          /\ exclusions[k].Prefix # ret.map[n].Prefix

\* C3: every placed block is appended to the working avoid-set before the
\* next request is handled, and the blocks placed for two requests of one
\* call never share an address.
C3_PlacementsDisjoint ==
    /\ pc \in {"loop", "search"} => Len(usedBlocks) = Len(exclusions) + idx - 1
    /\ \A i \in PlacedIdx : \A j \in PlacedIdx :
          i < j => ~SpansIntersect(usedBlocks[i], usedBlocks[j])
    /\ \A n \in DOMAIN results : \A m \in DOMAIN results :
          n # m => ~SpansIntersect(results[n], results[m])
    /\ \A n \in DOMAIN results : \E i \in PlacedIdx : usedBlocks[i] = results[n]

\* C3 witness: two requests of different prefix lengths were both placed.
C3_Witness ==
    /\ Succeeded
    /\ Len(requests) = 2
    /\ requests[1].PrefixLength # requests[2].PrefixLength
    /\ Cardinality(DOMAIN ret.map) = 2

\* C4: every placed block is the lowest-addressed size-aligned block of its
\* size that lies in the parent range and meets no range of the working
\* avoid-set as it was when the request was searched.
C4_FirstFit ==
    \A i \in PlacedIdx :
        LET free == FreeStarts(usedBlocks[i].Prefix, SubSeq(usedBlocks, 1, i - 1))
        IN free # {} /\ usedBlocks[i].IP = Lowest(free)

\* C5: a request that is not too large fails with exhaustion exactly when
\* no size-aligned block of its size in the parent range is free.
C5_ExhaustionIffNoFreeBlock ==
    /\ (pc = "done" /\ ret.err = "exhausted") =>
          FreeStarts(requests[idx].PrefixLength, usedBlocks) = {}
    /\ \A i \in PlacedIdx :
          usedBlocks[i].IP \in FreeStarts(usedBlocks[i].Prefix, SubSeq(usedBlocks, 1, i - 1))

\* C6: a search for a block of size S checks at most 2^AddrBits / S
\* candidates before it ends.
C6_SearchBounded ==
    pc = "search" => iters <= AddrSpace \div blockSize

\* C7: a request is rejected as invalid exactly when its prefix length is
\* smaller than the parent's; a request that is searched, placed or reported
\* as exhausted has a prefix length not smaller than the parent's.
C7_InvalidIffPrefixSmaller ==
    /\ (pc = "done" /\ ret.err = "invalid") =>
          requests[idx].PrefixLength < baseCIDR.Prefix
    /\ (pc \in {"search", "panic"} \/ (pc = "done" /\ ret.err = "exhausted")) =>
          requests[idx].PrefixLength >= baseCIDR.Prefix
    /\ pc # "idle" =>
          \A j \in 1..Len(requests) :
             (j < idx /\ j <= Len(usedBlocks) - Len(exclusions)) =>
                 requests[j].PrefixLength >= baseCIDR.Prefix

\* C7 witness: a request one prefix length short of the parent's was
\* rejected although an avoid list was given.
C7_Witness ==
    /\ pc = "done"
    /\ ret.err = "invalid"
    /\ requests[idx].PrefixLength = baseCIDR.Prefix - 1
    /\ exclusions # <<>>

\* C8: an error is never returned together with a mapping, and a mapping is
\* never returned together with an error.
C8_AllOrNothing ==
    Returned =>
        /\ ret.err # "nil" => (~ret.hasMap /\ ret.map = EmptyMap)
        /\ ret.hasMap => ret.err = "nil"
        /\ ret.err \in {"nil", "invalid", "exhausted"}

\* C8 witness: the second request failed after the first one had been
\* placed, and nothing was returned.
C8_Witness ==
    /\ Failed
    /\ idx = 2
    /\ results # EmptyMap
    /\ ~ret.hasMap

\* C9: a call never ends in a run-time panic.
C9_NoPanic == pc # "panic"

\* C10: a failed call reports the request the loop stands at; every request
\* before it has been placed, none after it has been handled, and the error
\* is the invalid-request one exactly when that request is too large.
C10_FirstFailureStops ==
    /\ Failed =>
          /\ idx \in 1..Len(requests)
          /\ ret.errName = requests[idx].Name
          /\ ret.errPrefix = requests[idx].PrefixLength
          /\ Len(usedBlocks) = Len(exclusions) + idx - 1
          /\ \A j \in 1..(idx - 1) : requests[j].PrefixLength >= baseCIDR.Prefix
          /\ ret.err = "invalid" <=> requests[idx].PrefixLength < baseCIDR.Prefix
    /\ Succeeded =>
          /\ idx = Len(requests) + 1
          /\ Len(usedBlocks) = Len(exclusions) + Len(requests)

\* C10 witness: the first request could not be placed, and the too-large
\* request after it was never reported.
C10_Witness ==
    /\ pc = "done"
    /\ ret.err = "exhausted"
    /\ idx = 1
    /\ Len(requests) = 2
    /\ requests[2].PrefixLength < baseCIDR.Prefix

\* C11: with an empty avoid list, a single request whose prefix length is
\* the parent's succeeds and returns exactly the parent range.
C11_EqualPrefixReturnsParent ==
    (/\ pc \in {"done", "panic"}
     /\ exclusions = <<>>
     /\ Len(requests) = 1
     /\ requests[1].PrefixLength = baseCIDR.Prefix)
    => (Succeeded /\ ret.hasMap /\ ret.map = Put(EmptyMap, requests[1].Name, baseCIDR))

RequestNames == {requests[i].Name : i \in 1..Len(requests)}
DistinctNames == \A i \in 1..Len(requests) : \A j \in 1..Len(requests) :
                     i # j => requests[i].Name # requests[j].Name

\* C12: a call that succeeds on pairwise distinct names returns a mapping
\* whose keys are exactly the request names, one entry per request.
C12_OneEntryPerRequest ==
    (Succeeded /\ DistinctNames) =>
        /\ ret.hasMap
        /\ DOMAIN ret.map = RequestNames
        /\ Cardinality(DOMAIN ret.map) = Len(requests)

\* C12 witness: two requests with different names were both placed.
C12_Witness ==
    /\ Succeeded
    /\ Len(requests) = 2
    /\ requests[1].Name # requests[2].Name
    /\ requests[1].PrefixLength = requests[2].PrefixLength

\* C13: a call with an empty request list returns an empty, non-nil mapping
\* and no error, whatever the parent and the avoid list.
C13_EmptyRequests ==
    (pc \notin {"idle", "loop"} /\ requests = <<>>) =>
        (Succeeded /\ ret.hasMap /\ ret.map = EmptyMap)

\* C13 witness: the empty request list was served although the avoid list
\* covers the whole parent.
C13_Witness ==
    /\ Succeeded
    /\ requests = <<>>
    /\ \E k \in 1..Len(exclusions) : Within(baseCIDR, exclusions[k])

\* C15: while a call runs and after it has returned, the caller's avoid
\* list and the allocator's parent range keep their values.
C15_InputsUnchanged ==
    [][(pc # "idle" => exclusions' = exclusions) /\ baseCIDR' = baseCIDR]_vars

\* C15 witness: a call with a non-empty avoid list placed a block, which
\* went to the working copy only.
C15_Witness ==
    /\ Succeeded
    /\ exclusions # <<>>
    /\ Len(usedBlocks) > Len(exclusions)

\* C16: networksOverlap is true exactly when the two address spans share an
\* address: equal and nested ranges overlap, adjacent and disjoint ones do
\* not.
C16_OverlapIffSpansMeet ==
    (aux.kind = "overlap" /\ aux.called) =>
        /\ aux.ab = SpansIntersect(aux.a, aux.b)
        /\ aux.a = aux.b => aux.ab
        /\ (Within(aux.a, aux.b) \/ Within(aux.b, aux.a)) => aux.ab
        /\ (SpanEnd(aux.a) <= aux.b.IP \/ SpanEnd(aux.b) <= aux.a.IP) => ~aux.ab

\* C16 witness: two adjacent ranges of different sizes were tested and found
\* not to overlap.
C16_Witness ==
    /\ aux.kind = "overlap"
    /\ aux.called
    /\ SpanEnd(aux.a) = aux.b.IP
    /\ aux.a.Prefix # aux.b.Prefix
    /\ ~aux.ab

\* C17: the overlap test gives the same answer with its arguments swapped.
C17_OverlapSymmetric ==
    (aux.kind = "overlap" /\ aux.called) => aux.ab = aux.ba

\* C17 witness: a range and a smaller range nested in it, not at its base,
\* were tested both ways round.
C17_Witness ==
    /\ aux.kind = "overlap"
    /\ aux.called
    /\ Within(aux.b, aux.a)
    /\ aux.b.IP # aux.a.IP
    /\ aux.ab
    /\ aux.ba

\* What a text must look like to be a CIDR, and the range it then denotes.
WellFormed(t) == Len(t) = 2 /\ t[1] \in 0..(AddrSpace - 1) /\ t[2] \in Prefixes
Denoted(t) == CHOOSE r \in Ranges : r.Prefix = t[2] /\ r.IP <= t[1] /\ t[1] < SpanEnd(r)

\* C20: ParseCIDRs returns an error quoting the first text that is no CIDR,
\* and no list, if there is such a text; otherwise it returns, in input
\* order, the range each text denotes, and no error.
C20_ParseAllOrNothing ==
    (aux.kind = "parse" /\ pc = "parsed") =>
        LET bad == {k \in 1..Len(aux.cidrs) : ~WellFormed(aux.cidrs[k])}
        IN IF bad # {}
           THEN /\ aux.err
                /\ ~aux.hasList
                /\ aux.list = <<>>
                /\ aux.errText = aux.cidrs[Lowest(bad)]
           ELSE /\ ~aux.err
                /\ aux.hasList
                /\ Len(aux.list) = Len(aux.cidrs)
                /\ \A k \in 1..Len(aux.cidrs) : aux.list[k] = Denoted(aux.cidrs[k])

\* C20 witness: the second text failed after the first had been parsed, and
\* the parsed network was not returned.
C20_Witness ==
    /\ aux.kind = "parse"
    /\ pc = "parsed"
    /\ aux.err
    /\ Len(aux.networks) = 1
    /\ ~aux.hasList

\* C19: NewAllocator fails, and returns no allocator, exactly when the text
\* is no CIDR; otherwise the allocator's parent is the range the text
\* denotes, host bits cleared, and a call on it ends as the same call on
\* that range ends.
C19_NewAllocatorNormalizes ==
    aux.kind = "new" =>
        /\ pc = "newerr" => (~WellFormed(aux.text) /\ aux.err /\ ~aux.hasAllocator)
        /\ pc \notin {"new", "newerr"} =>
              /\ WellFormed(aux.text)
              /\ aux.hasAllocator /\ ~aux.err
              /\ baseCIDR = Denoted(aux.text)
              /\ Aligned(baseCIDR)
        /\ pc \in {"done", "panic"} =>
              LET alone == RunAlone(Denoted(aux.text), CallInit(requests, exclusions))
              IN alone.pc = pc /\ alone.ret = ret

\* C19 witness: a parent written with host bits set was accepted and a call
\* on the allocator placed a block.
C19_Witness ==
    /\ aux.kind = "new"
    /\ Succeeded
    /\ aux.text[1] # baseCIDR.IP
    /\ ret.map # EmptyMap

\* C19 witness of the failure: a text with no prefix part was refused.
C19_WitnessError ==
    /\ aux.kind = "new"
    /\ pc = "newerr"
    /\ Len(aux.text) = 1

\* The call in the variables is a later call with the inputs of the first.
Repeated ==
    /\ aux.kind = "calls"
    /\ aux.n >= 1
    /\ requests = aux.reqs
    /\ exclusions = aux.excl

\* C14: a call with the inputs of the first call returns what the first
\* call returned (the same mapping, or the same error for the same
\* request), whatever calls were made in between; it neither panics nor
\* fails to return.
C14_Deterministic ==
    Repeated =>
        /\ pc = "done" => ret = aux.ret
        /\ pc # "panic"
        /\ pc = "search" => iters < MaxIter

\* C14 witness: the first call placed blocks, another call was made, and the
\* first call made again returned the same mapping.
C14_Witness ==
    /\ Repeated
    /\ aux.between
    /\ Succeeded
    /\ ret.map # EmptyMap
    /\ exclusions # <<>>
    /\ Len(requests) = 2

\* A call has come to the end the same call comes to when it runs alone.
EndsAsAlone(c) ==
    LET alone == RunAlone(baseCIDR, CallInit(c.requests, c.exclusions))
    IN /\ c.pc \in {"done", "panic"} => (alone.pc = c.pc /\ alone.ret = c.ret)
       /\ (c.pc = "search" /\ c.iters >= MaxIter) => alone.pc = "search"

\* C18: of two calls that run at the same time on one allocator, each ends
\* as it ends when it runs alone, under every interleaving of their steps.
C18_ConcurrentCallsIndependent ==
    aux.kind = "conc" => (EndsAsAlone(ThisCall) /\ EndsAsAlone(aux.c))

\* C18 witness: the two calls ran interleaved and both were given the same
\* block.
C18_Witness ==
    /\ aux.kind = "conc"
    /\ aux.overlapped
    /\ Succeeded
    /\ aux.c.pc = "done"
    /\ aux.c.ret.err = "nil"
    /\ \E n \in DOMAIN ret.map : \E m \in DOMAIN aux.c.ret.map : ret.map[n] = aux.c.ret.map[m]

\* The record form of a call takes the steps the actions take.
StepAgrees ==
    [][(pc \in {"loop", "search"}) => ((ThisCall)' = CallStep(baseCIDR, ThisCall))]_vars

\* Two requests of one call share a name.
SameName == Len(requests) = 2 /\ requests[1].Name = requests[2].Name

\* The requests of the call with the second one given the other name.
Renamed ==
    <<requests[1],
      [requests[2] EXCEPT !.Name = CHOOSE n \in Names : n # requests[1].Name]>>

\* C30: a call whose two requests share a name ends as the call with the
\* second request renamed ends (it does not fail because of the name); when
\* it succeeds both requests were placed on disjoint blocks, both blocks are
\* on the working avoid-set, and the returned mapping has one entry, the
\* block of the later request.
C30_DuplicateNameOverwrites ==
    (pc \in {"done", "panic"} /\ SameName) =>
        /\ LET alone == RunAlone(baseCIDR, CallInit(Renamed, exclusions))
           IN /\ alone.pc = pc
              /\ alone.ret.err = ret.err
              /\ alone.usedBlocks = usedBlocks
        /\ Succeeded =>
              /\ Len(usedBlocks) = Len(exclusions) + 2
              /\ ~SpansIntersect(usedBlocks[Len(exclusions) + 1], usedBlocks[Len(exclusions) + 2])
              /\ usedBlocks[Len(exclusions) + 1].Prefix = requests[1].PrefixLength
              /\ usedBlocks[Len(exclusions) + 2].Prefix = requests[2].PrefixLength
              /\ ret.hasMap
              /\ DOMAIN ret.map = {requests[2].Name}
              /\ ret.map[requests[2].Name] = usedBlocks[Len(exclusions) + 2]
              /\ Cardinality(DOMAIN ret.map) < Len(requests)

\* C30 witness: two requests of one name and different sizes were both
\* placed, next to an avoid list.
C30_Witness ==
    /\ Succeeded
    /\ SameName
    /\ requests[1].PrefixLength # requests[2].PrefixLength
    /\ exclusions # <<>>

\* C27: the first candidate of a search is the parent's base address, and
\* every rejected candidate is followed by a candidate whose start is a
\* multiple of the block size and strictly greater than the rejected one's.
C27_ScanMovesUp ==
    [][/\ (pc = "loop" /\ pc' = "search") => candidateStart' = baseCIDR.IP
       /\ (pc = "search" /\ pc' = "search") =>
              /\ candidateStart' > candidateStart
              /\ candidateStart' % blockSize = 0]_vars

\* The next multiple of bs at or above c, as a mathematical integer.
AlignedAbove(c, bs) == IF c % bs # 0 THEN ((c \div bs) + 1) * bs ELSE c

\* C25: no value of the address arithmetic wraps around: the block size is
\* 2^(AddrBits - p), and the parent's end, the candidate's end, the end of
\* the avoid range a candidate is rejected for and the re-aligned next
\* candidate are the mathematical sums.
C25_NoWrap ==
    pc \in {"search", "panic"} =>
        /\ blockSize = Pow2(AddrBits - requests[idx].PrefixLength)
        /\ baseEnd = SpanEnd(baseCIDR)
        /\ pc = "search" =>
              /\ U32(candidateStart + blockSize) = candidateStart + blockSize
              /\ LET k == FirstOverlap(Candidate, usedBlocks)
                 IN (InLoop /\ k # 0) =>
                       /\ RangeEnd(usedBlocks[k]) = SpanEnd(usedBlocks[k])
                       /\ AlignUp(RangeEnd(usedBlocks[k]), blockSize)
                             = AlignedAbove(SpanEnd(usedBlocks[k]), blockSize)

\* The placement search with the other skip policy, on mathematical
\* integers: a rejected candidate moves to the end of the overlapping avoid
\* range that extends furthest, aligned up.  NoBlock stands for exhaustion.
NoBlock == 0 - 1

Highest(S) == CHOOSE s \in S : \A t \in S : t <= s

RECURSIVE FurthestFrom(_, _, _)
FurthestFrom(c, p, avoid) ==
    LET size == Pow2(AddrBits - p)
        over == {k \in 1..Len(avoid) :
                    c < SpanEnd(avoid[k]) /\ avoid[k].IP < c + size}
    IN IF c + size > SpanEnd(baseCIDR) THEN NoBlock
       ELSE IF over = {} THEN c
       ELSE FurthestFrom(AlignedAbove(Highest({SpanEnd(avoid[k]) : k \in over}), size), p, avoid)

FurthestSearch(p, avoid) ==
    FurthestFrom(AlignedAbove(baseCIDR.IP, Pow2(AddrBits - p)), p, avoid)

\* C24: the search of the code ends as the search with the furthest-range
\* skip policy ends: every placed block is the block that search returns on
\* the working avoid-set of the time, a request is reported as exhausted
\* exactly when that search finds no block, and the search of the code
\* always ends.
C24_SkipPolicyEquivalent ==
    /\ \A i \in PlacedIdx :
          usedBlocks[i].IP = FurthestSearch(usedBlocks[i].Prefix, SubSeq(usedBlocks, 1, i - 1))
    /\ (pc = "done" /\ ret.err = "exhausted") =>
          FurthestSearch(requests[idx].PrefixLength, usedBlocks) = NoBlock
    /\ pc # "panic"
    /\ pc = "search" => iters < MaxIter

\* The avoid lists that cover the addresses the list excl covers, as far as
\* the parent goes: excl in another order, with an entry repeated, with a
\* range nested in an entry added, or with a range outside the parent added.
Reordered(excl) ==
    {[i \in 1..Len(excl) |-> excl[f[i]]] :
        f \in {g \in [1..Len(excl) -> 1..Len(excl)] :
                  \A i, j \in 1..Len(excl) : i # j => g[i] # g[j]}}

SameCover(excl) ==
    Reordered(excl)
    \cup {Append(excl, excl[k]) : k \in 1..Len(excl)}
    \cup {Append(excl, r) : r \in {q \in Ranges : \E k \in 1..Len(excl) : Within(q, excl[k])}}
    \cup {Append(excl, r) : r \in {q \in Ranges : ~SpansIntersect(q, baseCIDR)}}

\* The call in the variables has ended or has been cut off.
Ended == pc \in {"done", "panic"} \/ (pc = "search" /\ iters >= MaxIter)

\* C26: a call ends as the same call ends on every avoid list that covers
\* the same addresses (reordered, an entry repeated, a nested range added,
\* a range outside the parent added): the same mapping or the same failure.
C26_AvoidListAsSet ==
    Ended =>
        \A e \in SameCover(exclusions) :
            LET other == RunAlone(baseCIDR, CallInit(requests, e))
            IN /\ other.pc = pc
               /\ other.ret = ret

\* ------------------------------------------------------------------ allocation names
\* The allocation blocks of a docidr_pool configuration: a list of entries
\* with a name and a prefix_length.
MaxAllocs == 4

AllocNames == {"a", "b", "c"}

\* prefix_length is validated to lie strictly between 0 and the address width.
AllocEntries == [name : AllocNames, prefix_length : 1..(AddrBits - 1)]

AllocLists == SeqsUpTo(AllocEntries, MaxAllocs)

NoError == [err |-> FALSE, Name |-> ""]

\* A check that compares a name with the one before it only (not what the
\* code does).
validateUniqueAdjacent(allocations) ==
    IF \E i \in 2..Len(allocations) : allocations[i].name = allocations[i - 1].name
    THEN [err |-> TRUE,
          Name |-> allocations[CHOOSE i \in 2..Len(allocations) :
                                 /\ allocations[i].name = allocations[i - 1].name
                                 /\ \A j \in 2..(i - 1) :
                                       allocations[j].name # allocations[j - 1].name].name]
    ELSE NoError

\* The loop of validateUniqueAllocationNames from entry i on, with the names
\* seen so far.
RECURSIVE validateFrom(_, _, _)
validateFrom(allocations, i, seen) ==
    IF i > Len(allocations) THEN NoError
    ELSE IF allocations[i].name \in seen
         THEN [err |-> TRUE, Name |-> allocations[i].name]
         ELSE validateFrom(allocations, i + 1, seen \cup {allocations[i].name})

\* validateUniqueAllocationNames: a DuplicateNameError or nil.
validateUniqueAllocationNames(allocations) == validateFrom(allocations, 1, {})

\* expandAllocations: the requests in the order of the configuration.
expandAllocations(allocations) ==
    [i \in 1..Len(allocations) |->
        [Name |-> allocations[i].name, PrefixLength |-> allocations[i].prefix_length]]

\* CustomizeDiff: the names are validated when the attribute is set (GetOk
\* reports an empty list as not set).
CustomizeDiffResult(allocations) ==
    IF allocations # <<>> THEN validateUniqueAllocationNames(allocations) ELSE NoError

\* A configuration before it is planned.
InitNames ==
    /\ baseCIDR \in {r \in Ranges : r.Prefix = AddrBits - 1}
    /\ pc = "plan"
    /\ AllocateUnused
    /\ aux \in [kind : {"names"}, allocation : AllocLists, err : {NoError}]

\* The plan: CustomizeDiff fails the plan with the error of the validation.
NamesCustomizeDiff ==
    /\ pc = "plan"
    /\ aux.kind = "names"
    /\ aux' = [aux EXCEPT !.err = CustomizeDiffResult(aux.allocation)]
    /\ pc' = IF CustomizeDiffResult(aux.allocation).err THEN "planerr" ELSE "planned"
    /\ UNCHANGED <<baseCIDR, AllocateVars>>

\* The create of a planned resource reaches the allocator with the expanded
\* allocation blocks.
NamesCreate ==
    /\ pc = "planned"
    /\ aux.kind = "names"
    /\ requests' = expandAllocations(aux.allocation)
    /\ exclusions' = <<>>
    /\ results' = EmptyMap
    /\ usedBlocks' = <<>>
    /\ idx' = 1
    /\ pc' = "loop"
    /\ UNCHANGED <<aux, baseCIDR, blockSize, baseEnd, candidateStart, iters, ret>>

NextNames ==
    \/ NamesCustomizeDiff
    \/ NamesCreate

SpecNames == InitNames /\ [][NextNames]_vars

\* The first position of the list whose name stands at an earlier position
\* too (0 when there is none).
FirstRepeat(allocations) ==
    LET rep == {j \in 1..Len(allocations) :
                   \E i \in 1..(j - 1) : allocations[i].name = allocations[j].name}
    IN IF rep = {} THEN 0 ELSE Lowest(rep)

\* C23: the plan fails with a DuplicateNameError exactly when two entries of
\* the allocation list have the same name, and the error names the first
\* entry whose name was seen before; the allocator is called with pairwise
\* distinct request names only.
C23_UniqueNamesValidated ==
    aux.kind = "names" =>
        /\ pc = "planerr" =>
              /\ FirstRepeat(aux.allocation) # 0
              /\ aux.err.err
              /\ aux.err.Name = aux.allocation[FirstRepeat(aux.allocation)].name
        /\ pc \notin {"plan", "planerr"} =>
              /\ FirstRepeat(aux.allocation) = 0
              /\ aux.err = NoError
        /\ pc = "loop" =>
              /\ DistinctNames
              /\ Len(requests) = Len(aux.allocation)
              /\ \A i \in 1..Len(requests) : requests[i].Name = aux.allocation[i].name

\* C23 witness: a list whose first repeated name is not the name of its
\* first entry, and not next to its earlier occurrence, was refused.
C23_Witness ==
    /\ aux.kind = "names"
    /\ pc = "planerr"
    /\ Len(aux.allocation) = 4
    /\ aux.err.Name = aux.allocation[2].name
    /\ aux.err.Name = aux.allocation[4].name
    /\ aux.allocation[1].name # aux.allocation[3].name
    /\ aux.err.Name \notin {aux.allocation[1].name, aux.allocation[3].name}

\* C23 witness of the passing case: three entries of distinct names reached
\* the allocator.
C23_WitnessPass ==
    /\ aux.kind = "names"
    /\ pc = "loop"
    /\ Len(requests) = 3

\* ------------------------------------------------------------------ resource id
\* The order of names that sort.Slice compares with.
NameRank(n) == CASE n = "a" -> 1 [] n = "b" -> 2 [] n = "c" -> 3 [] OTHER -> 0

\* The order of texts that sort.Strings compares with: position by
\* position, a text before its extensions.
RECURSIVE TextLess(_, _)
TextLess(s, t) ==
    IF t = <<>> THEN FALSE
    ELSE IF s = <<>> THEN TRUE
    ELSE IF Head(s) # Head(t) THEN Head(s) < Head(t)
    ELSE TextLess(Tail(s), Tail(t))

\* Insertion of a request into a list sorted by name, after the requests
\* that are not greater.
RECURSIVE InsertAlloc(_, _)
InsertAlloc(x, sorted) ==
    IF sorted = <<>> THEN <<x>>
    ELSE IF NameRank(x.Name) < NameRank(Head(sorted).Name)
         THEN <<x>> \o sorted
         ELSE <<Head(sorted)>> \o InsertAlloc(x, Tail(sorted))

\* sort.Slice(sortedAllocs, by Name) on a copy of the requests.
RECURSIVE SortAllocs(_)
SortAllocs(allocations) ==
    IF allocations = <<>> THEN <<>>
    ELSE InsertAlloc(allocations[Len(allocations)],
                     SortAllocs(SubSeq(allocations, 1, Len(allocations) - 1)))

RECURSIVE InsertText(_, _)
InsertText(x, sorted) ==
    IF sorted = <<>> THEN <<x>>
    ELSE IF TextLess(x, Head(sorted))
         THEN <<x>> \o sorted
         ELSE <<Head(sorted)>> \o InsertText(x, Tail(sorted))

\* sort.Strings(exclCIDRs)
RECURSIVE SortTexts(_)
SortTexts(texts) ==
    IF texts = <<>> THEN <<>>
    ELSE InsertText(texts[Len(texts)], SortTexts(SubSeq(texts, 1, Len(texts) - 1)))

\* An id made of the requests in the order given (not what the code does).
generateResourceIDUnsorted(base, allocations, excludes) ==
    [set |-> TRUE,
     base |-> base,
     allocs |-> allocations,
     excl |-> SortTexts([i \in 1..Len(excludes) |-> excludes[i].cidr])]

\* generateResourceID: the hash of the parts joined with "|".  The id is
\* held as the parts that are hashed: the base text, the name:prefix_length
\* of the requests sorted by name, the sorted exclude texts.
generateResourceID(base, allocations, excludes) ==
    [set |-> TRUE,
     base |-> base,
     allocs |-> SortAllocs(allocations),
     excl |-> SortTexts([i \in 1..Len(excludes) |-> excludes[i].cidr])]

\* d.Id() of a resource that has no id.
NoId == [set |-> FALSE, base |-> <<>>, allocs |-> <<>>, excl |-> <<>>]

\* ------------------------------------------------------------------ docidr_pool
\* The life of one docidr_pool resource: the plan (CustomizeDiff), the
\* create (user exclusions, the account's VPCs and Kubernetes clusters page
\* by page, the allocator, the id and the allocations attribute) and the
\* reads after it.  What the account returns is chosen anew at every List
\* call; aux.listed keeps every field value the account has returned.
MaxListed == 3
MaxPages == 2
MaxReads == 2

\* The base_cidr texts of the configurations: a parent written with host
\* bits set, a parent smaller than some requests, a parent that ends at the
\* top of the address space, a text with no prefix.
PoolBaseTexts == {<<1, 1>>, <<4, 2>>, <<5, 1>>, <<2>>}

\* The CIDR texts of exclude blocks and of the account's resources: a range
\* inside the first parent, two ranges outside it, a text with no prefix.
PoolCidrTexts == {<<3, 2>>, <<4, 1>>, <<6, 2>>, <<0>>}

\* A string field of an account resource: empty, or a text.
FieldValues == {<<>>} \cup {<<t>> : t \in PoolCidrTexts}

PoolAllocLists == SeqsUpTo([name : Names, prefix_length : 1..(AddrBits - 1)], MaxReq)

PoolExcludeLists == SeqsUpTo([cidr : PoolCidrTexts, reason : {""}], MaxAvoid)

\* expandExclusions: the networks of the exclude blocks, or the error of the
\* first text that does not parse.
expandExclusions(excludes) ==
    LET bad == {i \in 1..Len(excludes) : ~ParseCIDR(excludes[i].cidr).ok}
    IN IF bad = {}
       THEN [ok |-> TRUE,
             networks |-> [i \in 1..Len(excludes) |-> ParseCIDR(excludes[i].cidr).network]]
       ELSE [ok |-> FALSE, networks |-> <<>>]

\* The loop over the string fields of one page: a field that is not empty
\* and parses is appended, any other is skipped.
RECURSIVE appendParsed(_, _)
appendParsed(cidrs, fields) ==
    IF fields = <<>> THEN cidrs
    ELSE LET f == Head(fields)
         IN IF f # <<>> /\ ParseCIDR(f[1]).ok
            THEN appendParsed(Append(cidrs, ParseCIDR(f[1]).network), Tail(fields))
            ELSE appendParsed(cidrs, Tail(fields))

\* flattenAllocations: the same entries in a new map.
flattenAllocations(allocations) == [n \in DOMAIN allocations |-> allocations[n]]

\* What a List call can return: an error, or a page of resources that is
\* the last one or has a next page, whose number may fail to be read.
VPCResponses ==
    {r \in [vpcs : SeqsUpTo(FieldValues, 1), fault : {"none", "list", "links"}, last : BOOLEAN] :
        /\ r.fault = "list" => (r.vpcs = <<>> /\ r.last)
        /\ r.fault = "links" => ~r.last}

KubernetesResponses ==
    {r \in [clusters : SeqsUpTo([ClusterSubnet : FieldValues, ServiceSubnet : FieldValues], 1),
            fault : {"none", "list", "links"}, last : BOOLEAN] :
        /\ r.fault = "list" => (r.clusters = <<>> /\ r.last)
        /\ r.fault = "links" => ~r.last}

\* The string fields of a page, in the order the loops read them.
VPCFields(vpcs) == vpcs

ClusterFields(clusters) ==
    IF clusters = <<>> THEN <<>>
    ELSE <<clusters[1].ClusterSubnet, clusters[1].ServiceSubnet>>

\* A configuration before it is planned, and a resource with no id.
InitPool ==
    /\ baseCIDR = [IP |-> 0, Prefix |-> 0]
    /\ pc = "plan"
    /\ AllocateUnused
    /\ aux \in [kind : {"pool"}, text : PoolBaseTexts, hasAllocator : {FALSE}, err : {FALSE},
                allocation : PoolAllocLists, exclude : PoolExcludeLists,
                planErr : {NoError}, userExclusions : {<<>>},
                cidrs : {<<>>}, local : {<<>>}, page : {0},
                listed : {<<>>}, pending : {FALSE}, apiCalls : {0},
                id : {NoId}, hasAllocations : {FALSE}, allocations : {EmptyMap},
                diag : {"none"}, reads : {0}, changed : {FALSE}]

\* The plan of the configuration.
PoolCustomizeDiff ==
    /\ pc = "plan"
    /\ aux.kind = "pool"
    /\ aux' = [aux EXCEPT !.planErr = CustomizeDiffResult(aux.allocation)]
    /\ pc' = IF CustomizeDiffResult(aux.allocation).err THEN "planerr" ELSE "create"
    /\ UNCHANGED <<baseCIDR, AllocateVars>>

\* Create, up to the user exclusions.
PoolExpandExclusions ==
    /\ pc = "create"
    /\ IF expandExclusions(aux.exclude).ok
       THEN /\ aux' = [aux EXCEPT !.userExclusions = expandExclusions(aux.exclude).networks]
            /\ pc' = "vpc"
       ELSE /\ aux' = [aux EXCEPT !.diag = "exclude"]
            /\ pc' = "failed"
    /\ UNCHANGED <<baseCIDR, AllocateVars>>

\* collectVPCCIDRs, one pass of its loop: a List call, the IP ranges of the
\* page, and the way to the next page or out of the loop.  The ranges go to
\* the list of collectExistingCIDRs when the function returns.
PoolListVPCs ==
    /\ pc = "vpc"
    /\ \E r \in VPCResponses :
          /\ Len(aux.listed) + Len(VPCFields(r.vpcs)) <= MaxListed
          /\ aux.page + 1 >= MaxPages => r.last
          /\ IF r.fault = "list"
             THEN /\ aux' = [aux EXCEPT !.apiCalls = @ + 1, !.diag = "listing", !.local = <<>>]
                  /\ pc' = "failed"
             ELSE LET cidrs == appendParsed(aux.local, VPCFields(r.vpcs))
                      seen == [aux EXCEPT !.apiCalls = @ + 1,
                                          !.listed = @ \o VPCFields(r.vpcs),
                                          !.pending = ~r.last]
                  IN IF r.last
                     THEN /\ aux' = [seen EXCEPT !.cidrs = @ \o cidrs, !.local = <<>>, !.page = 0]
                          /\ pc' = "k8s"
                     ELSE IF r.fault = "links"
                     THEN /\ aux' = [seen EXCEPT !.diag = "listing", !.local = <<>>]
                          /\ pc' = "failed"
                     ELSE /\ aux' = [seen EXCEPT !.local = cidrs, !.page = @ + 1]
                          /\ pc' = pc
    /\ UNCHANGED <<baseCIDR, AllocateVars>>

\* A listing of the clusters that leaves the service subnets out (not what
\* the code does).
PoolListKubernetesNoService ==
    /\ pc = "k8s"
    /\ \E r \in KubernetesResponses :
          /\ Len(aux.listed) + Len(ClusterFields(r.clusters)) <= MaxListed
          /\ aux.page + 1 >= MaxPages => r.last
          /\ IF r.fault = "list"
             THEN /\ aux' = [aux EXCEPT !.apiCalls = @ + 1, !.diag = "listing", !.local = <<>>]
                  /\ pc' = "failed"
             ELSE LET cidrs == appendParsed(aux.local, IF r.clusters = <<>> THEN <<>> ELSE <<r.clusters[1].ClusterSubnet>>)
                      seen == [aux EXCEPT !.apiCalls = @ + 1,
                                          !.listed = @ \o ClusterFields(r.clusters),
                                          !.pending = ~r.last]
                  IN IF r.last
                     THEN /\ aux' = [seen EXCEPT !.cidrs = @ \o cidrs, !.local = <<>>, !.page = 0]
                          /\ pc' = "new"
                     ELSE IF r.fault = "links"
                     THEN /\ aux' = [seen EXCEPT !.diag = "listing", !.local = <<>>]
                          /\ pc' = "failed"
                     ELSE /\ aux' = [seen EXCEPT !.local = cidrs, !.page = @ + 1]
                          /\ pc' = pc
    /\ UNCHANGED <<baseCIDR, AllocateVars>>

\* collectKubernetesCIDRs, one pass of its loop: a List call, the cluster
\* subnet and the service subnet of every cluster of the page, and the way
\* to the next page or out of the loop.
PoolListKubernetes ==
    /\ pc = "k8s"
    /\ \E r \in KubernetesResponses :
          /\ Len(aux.listed) + Len(ClusterFields(r.clusters)) <= MaxListed
          /\ aux.page + 1 >= MaxPages => r.last
          /\ IF r.fault = "list"
             THEN /\ aux' = [aux EXCEPT !.apiCalls = @ + 1, !.diag = "listing", !.local = <<>>]
                  /\ pc' = "failed"
             ELSE LET cidrs == appendParsed(aux.local, ClusterFields(r.clusters))
                      seen == [aux EXCEPT !.apiCalls = @ + 1,
                                          !.listed = @ \o ClusterFields(r.clusters),
                                          !.pending = ~r.last]
                  IN IF r.last
                     THEN /\ aux' = [seen EXCEPT !.cidrs = @ \o cidrs, !.local = <<>>, !.page = 0]
                          /\ pc' = "new"
                     ELSE IF r.fault = "links"
                     THEN /\ aux' = [seen EXCEPT !.diag = "listing", !.local = <<>>]
                          /\ pc' = "failed"
                     ELSE /\ aux' = [seen EXCEPT !.local = cidrs, !.page = @ + 1]
                          /\ pc' = pc
    /\ UNCHANGED <<baseCIDR, AllocateVars>>

\* Create returns the error of NewAllocator.
PoolNewFailed ==
    /\ pc = "newerr"
    /\ aux.kind = "pool"
    /\ aux' = [aux EXCEPT !.diag = "base"]
    /\ pc' = "failed"
    /\ UNCHANGED <<baseCIDR, AllocateVars>>

\* allocator.Allocate(allocationRequests, append(existingCIDRs, userExclusions...))
PoolAllocate ==
    /\ pc = "idle"
    /\ aux.kind = "pool"
    /\ Allocate(expandAllocations(aux.allocation), aux.cidrs \o aux.userExclusions)

\* A create that sets the id before it looks at the error of Allocate (not
\* what the code does).
PoolSetResultIdFirst ==
    /\ pc = "done"
    /\ aux.kind = "pool"
    /\ IF ret.err = "nil"
       THEN /\ aux' = [aux EXCEPT !.id = generateResourceID(aux.text, requests, aux.exclude),
                                  !.hasAllocations = TRUE,
                                  !.allocations = flattenAllocations(ret.map)]
            /\ pc' = "created"
       ELSE /\ aux' = [aux EXCEPT !.id = generateResourceID(aux.text, requests, aux.exclude),
                                  !.diag = "allocate"]
            /\ pc' = "failed"
    /\ UNCHANGED <<baseCIDR, AllocateVars>>

\* Create after Allocate has returned: its error, or the id and the
\* allocations attribute.
PoolSetResult ==
    /\ pc = "done"
    /\ aux.kind = "pool"
    /\ IF ret.err = "nil"
       THEN /\ aux' = [aux EXCEPT !.id = generateResourceID(aux.text, requests, aux.exclude),
                                  !.hasAllocations = TRUE,
                                  !.allocations = flattenAllocations(ret.map)]
            /\ pc' = "created"
       ELSE /\ aux' = [aux EXCEPT !.diag = "allocate"]
            /\ pc' = "failed"
    /\ UNCHANGED <<baseCIDR, AllocateVars>>

\* A read that lists the account's VPCs again and drops the allocations when
\* the account has changed (not what the code does).
PoolReadRefresh ==
    /\ pc = "created"
    /\ aux.reads < MaxReads
    /\ aux' = [aux EXCEPT !.reads = @ + 1,
                          !.apiCalls = @ + 1,
                          !.allocations = IF aux.changed THEN EmptyMap ELSE @]
    /\ UNCHANGED <<baseCIDR, pc, AllocateVars>>

\* resourceDocidrPoolRead: nothing but a log line.
PoolRead ==
    /\ pc = "created"
    /\ aux.reads < MaxReads
    /\ aux' = [aux EXCEPT !.reads = @ + 1]
    /\ UNCHANGED <<baseCIDR, pc, AllocateVars>>

\* The CIDRs in use in the account change after the resource was created.
PoolAccountChanges ==
    /\ pc = "created"
    /\ ~aux.changed
    /\ aux' = [aux EXCEPT !.changed = TRUE]
    /\ UNCHANGED <<baseCIDR, pc, AllocateVars>>

NextPool ==
    \/ PoolCustomizeDiff
    \/ PoolExpandExclusions
    \/ PoolListVPCs
    \/ PoolListKubernetes
    \/ NewAllocator
    \/ PoolNewFailed
    \/ PoolAllocate
    \/ ForReturn
    \/ ForReject
    \/ FindEnter
    \/ FindPlace
    \/ FindSkip
    \/ FindExhaust
    \/ PoolSetResult
    \/ PoolRead
    \/ PoolAccountChanges

SpecPool == InitPool /\ [][NextPool]_vars

\* ------------------------------------------------------------------ claims about docidr_pool
\* The ranges denoted by the field values that hold a CIDR, in order.
RECURSIVE DenotedOf(_)
DenotedOf(fields) ==
    IF fields = <<>> THEN <<>>
    ELSE (IF Head(fields) # <<>> /\ WellFormed(Head(fields)[1])
          THEN <<Denoted(Head(fields)[1])>>
          ELSE <<>>) \o DenotedOf(Tail(fields))

\* The ranges the exclude blocks denote.
UserDenoted == [i \in 1..Len(aux.exclude) |-> Denoted(aux.exclude[i].cidr)]

\* Create has called the allocator.
AllocatorCalled ==
    \/ pc \in {"loop", "search", "done", "panic", "created"}
    \/ pc = "failed" /\ aux.diag = "allocate"

\* C21: the avoid list create gives to the allocator is every valid range
\* the account listing returned, over all pages and in the order returned,
\* followed by the user's exclude ranges; no stored allocation shares an
\* address with any of them or with another stored allocation.
C21_PoolAvoidsAccountAndExcludes ==
    aux.kind = "pool" =>
        /\ AllocatorCalled =>
              /\ exclusions = DenotedOf(aux.listed) \o UserDenoted
              /\ ~aux.pending
        /\ pc = "created" =>
              \A n \in DOMAIN aux.allocations :
                 /\ \A k \in 1..Len(DenotedOf(aux.listed)) :
                       ~SpansIntersect(aux.allocations[n], DenotedOf(aux.listed)[k])
                 /\ \A k \in 1..Len(UserDenoted) :
                       ~SpansIntersect(aux.allocations[n], UserDenoted[k])
                 /\ \A m \in DOMAIN aux.allocations :
                       m # n => ~SpansIntersect(aux.allocations[n], aux.allocations[m])

\* C21 witness: the account returned a VPC on a page that was not the last
\* one and a cluster with both subnets, one field was no CIDR, the user
\* excluded a range, and two blocks were stored, one of them not at the
\* parent's base.
C21_Witness ==
    /\ aux.kind = "pool"
    /\ pc = "created"
    /\ aux.apiCalls >= 3
    /\ Len(aux.listed) = 3
    /\ Len(DenotedOf(aux.listed)) = 2
    /\ aux.exclude # <<>>
    /\ Cardinality(DOMAIN aux.allocations) = 2
    /\ \E n \in DOMAIN aux.allocations : aux.allocations[n].IP # baseCIDR.IP

\* C22: once the resource is created, no step changes its id or its
\* allocations or calls the account listing, whatever happens to the
\* account; the listing is called during create only.
C22_ReadChangesNothing ==
    [][aux.kind = "pool" =>
          /\ pc = "created" =>
                /\ pc' = "created"
                /\ aux'.id = aux.id
                /\ aux'.allocations = aux.allocations
                /\ aux'.hasAllocations = aux.hasAllocations
                /\ aux'.apiCalls = aux.apiCalls
                /\ aux'.listed = aux.listed
          /\ aux'.apiCalls # aux.apiCalls => pc \in {"vpc", "k8s"}]_vars

\* C22 witness: the resource was read as often as the model allows, the
\* account has changed, and the blocks stored at create are still there.
C22_Witness ==
    /\ aux.kind = "pool"
    /\ pc = "created"
    /\ aux.reads = MaxReads
    /\ aux.changed
    /\ aux.apiCalls >= 2
    /\ aux.allocations # EmptyMap
    /\ aux.allocations = ret.map

Reasons == {"", "r"}

\* The exclude blocks in another order and with other reasons.
ExcludeVariants(excludes) ==
    {[i \in 1..Len(excludes) |-> [cidr |-> e[i].cidr, reason |-> rs[i]]] :
        e \in Reordered(excludes), rs \in [1..Len(excludes) -> Reasons]}

\* No two blocks of the allocation list have the same name.
PairwiseDistinctNames(allocation) ==
    \A i, j \in 1..Len(allocation) : i # j => allocation[i].name # allocation[j].name

\* The id of the configuration as it is written.
ConfiguredID == generateResourceID(aux.text, expandAllocations(aux.allocation), aux.exclude)

\* C29: for an allocation list with pairwise distinct names,
\* generateResourceID gives the same id for the allocation blocks in any
\* order and the exclude blocks in any order and with any reasons; create
\* is reached with such lists only, and the id it sets is that id, whatever
\* the account returned.
C29_IdFromConfigOnly ==
    aux.kind = "pool" =>
        /\ (pc \in {"plan", "created"} /\ PairwiseDistinctNames(aux.allocation)) =>
              \A a \in Reordered(aux.allocation) : \A e \in ExcludeVariants(aux.exclude) :
                  generateResourceID(aux.text, expandAllocations(a), e) = ConfiguredID
        /\ pc = "created" =>
              /\ PairwiseDistinctNames(aux.allocation)
              /\ aux.id = ConfiguredID

\* C29 as stated, for every allocation list: the id is the same for the
\* allocation blocks in any order.
C29_AnyAllocationList ==
    (aux.kind = "pool" /\ pc \in {"plan", "created"}) =>
        \A a \in Reordered(aux.allocation) :
            generateResourceID(aux.text, expandAllocations(a), aux.exclude) = ConfiguredID

\* C29 witness: an id was set for a configuration whose allocation blocks
\* and exclude blocks are both written against the sorted order, after the
\* account had returned ranges.
C29_Witness ==
    /\ aux.kind = "pool"
    /\ pc = "created"
    /\ Len(aux.allocation) = 2
    /\ NameRank(aux.allocation[2].name) < NameRank(aux.allocation[1].name)
    /\ Len(aux.exclude) = 2
    /\ TextLess(aux.exclude[2].cidr, aux.exclude[1].cidr)
    /\ DenotedOf(aux.listed) # <<>>

====
